---- MODULE Spec2Model ----
(***************************************************************************)
(* Model of generate_discussion_urls.py: the identifier reader, the URL    *)
(* builders, the pagination heuristic extract_max_page, the lazy generator *)
(* generate_urls with its consumer write_csv, and main.                    *)
(*                                                                         *)
(* Python strings are sequences of characters.  A character is a string of *)
(* length one; the two non-ASCII characters of the model are written by    *)
(* their code points, "U+00B2" (SUPERSCRIPT TWO, category No) and "U+0663" *)
(* (ARABIC-INDIC DIGIT THREE, category Nd).                                *)
(***************************************************************************)
EXTENDS Integers, Sequences, FiniteSets, TLC

----------------------------------------------------------------------------
(* Bounds of the model *)

\* most signal-bearing nodes (data-page elements, anchors, text nodes) of a page
MaxNodes == 2
\* most pagination containers of a page
MaxContainers == 2
\* most lines of the identifier file
MaxLines == 2
\* longest identifier and largest page number given to the URL builders
MaxIdLen == 2
MaxPageNo == 12

----------------------------------------------------------------------------
(* Python str and re primitives, as the interpreter computes them *)

AsciiDigits == {"0", "1", "2", "3", "4", "5", "6", "7", "8", "9"}

\* characters of Unicode category Nd: what int() converts and what \d matches
IsDecimalChar(c) == c \in AsciiDigits \cup {"U+0663"}

\* str.isdigit() per character: Nd, and also the characters whose
\* Numeric_Type is Digit, such as the superscript digits
IsDigitChar(c) == IsDecimalChar(c) \/ c = "U+00B2"

\* str.isspace() per character, which is also what \s matches
IsSpaceChar(c) == c \in {" ", "\t", "\n"}

DigitVal(c) ==
    CASE c = "0" -> 0 [] c = "1" -> 1 [] c = "2" -> 2 [] c = "3" -> 3
      [] c = "4" -> 4 [] c = "5" -> 5 [] c = "6" -> 6 [] c = "7" -> 7
      [] c = "8" -> 8 [] c = "9" -> 9 [] c = "U+0663" -> 3

\* a call that returned v / a call that raised the exception e
Return(v) == [exc |-> "", value |-> v]
Raise(e) == [exc |-> e, value |-> 0]

\* s.isdigit(): non-empty and every character a digit
str_isdigit(s) == Len(s) > 0 /\ \A i \in 1..Len(s) : IsDigitChar(s[i])

RECURSIVE DecimalValue(_)
DecimalValue(s) ==
    IF s = << >> THEN 0
    ELSE DecimalValue(SubSeq(s, 1, Len(s) - 1)) * 10 + DigitVal(s[Len(s)])

\* int(s) for a string without sign, blanks or underscores: the value when
\* every character is a decimal digit, ValueError otherwise
int(s) ==
    IF Len(s) > 0 /\ \A i \in 1..Len(s) : IsDecimalChar(s[i])
    THEN Return(DecimalValue(s))
    ELSE Raise("ValueError")

\* s.strip()
RECURSIVE lstrip(_)
lstrip(s) ==
    IF s # << >> /\ IsSpaceChar(s[1]) THEN lstrip(Tail(s)) ELSE s

RECURSIVE rstrip(_)
rstrip(s) ==
    IF s # << >> /\ IsSpaceChar(s[Len(s)])
    THEN rstrip(SubSeq(s, 1, Len(s) - 1)) ELSE s

strip(s) == rstrip(lstrip(s))

\* s.startswith(prefix)
startswith(s, prefix) ==
    Len(s) >= Len(prefix) /\ SubSeq(s, 1, Len(prefix)) = prefix

\* needle in s
Contains(s, needle) ==
    \E i \in 1..(Len(s) - Len(needle) + 1) :
        SubSeq(s, i, i + Len(needle) - 1) = needle

\* str.lower() on the letters of the model (re.IGNORECASE folds case)
Lower(c) ==
    CASE c = "P" -> "p" [] c = "A" -> "a" [] c = "G" -> "g" [] c = "E" -> "e"
      [] c = "O" -> "o" [] c = "F" -> "f" [] OTHER -> c

\* first position at or after i whose character is not in the class:
\* the end of a greedy \d+ or \s+ that starts at i
RECURSIVE SkipDigits(_, _)
SkipDigits(s, i) ==
    IF i <= Len(s) /\ IsDecimalChar(s[i]) THEN SkipDigits(s, i + 1) ELSE i

RECURSIVE SkipSpaces(_, _)
SkipSpaces(s, i) ==
    IF i <= Len(s) /\ IsSpaceChar(s[i]) THEN SkipSpaces(s, i + 1) ELSE i

\* the literal lit matches s at position i, ignoring case
LiteralAt(s, i, lit) ==
    /\ i + Len(lit) - 1 <= Len(s)
    /\ \A k \in 1..Len(lit) : Lower(s[i + k - 1]) = lit[k]

\* the least element of a non-empty set of positions: re.search reports the
\* leftmost match
Leftmost(hits) == CHOOSE i \in hits : \A j \in hits : i <= j

\* re.search(r"[?&]p=(\d+)", href): group 1 of the leftmost match, << >>
\* when there is no match
HrefPageGroup(href) ==
    LET hits == {i \in 1..Len(href) :
                    /\ href[i] \in {"?", "&"}
                    /\ i + 3 <= Len(href)
                    /\ href[i + 1] = "p"
                    /\ href[i + 2] = "="
                    /\ IsDecimalChar(href[i + 3])}
    IN  IF hits = {} THEN << >>
        ELSE SubSeq(href, Leftmost(hits) + 3,
                    SkipDigits(href, Leftmost(hits) + 3) - 1)

\* where the digits of group 1 of r"Page\s+\d+\s+of\s+(\d+)" start when the
\* pattern matches at i, and 0 when it does not match there
PageOfGroupStart(text, i) ==
    IF ~LiteralAt(text, i, <<"p", "a", "g", "e">>) THEN 0
    ELSE LET a == SkipSpaces(text, i + 4)
             b == SkipDigits(text, a)
             c == SkipSpaces(text, b)
             d == SkipSpaces(text, c + 2)
         IN  IF /\ a > i + 4
                /\ b > a
                /\ c > b
                /\ LiteralAt(text, c, <<"o", "f">>)
                /\ d > c + 2
                /\ SkipDigits(text, d) > d
             THEN d ELSE 0

\* re.search(r"Page\s+\d+\s+of\s+(\d+)", text, flags=re.IGNORECASE): group 1
\* of the leftmost match, << >> when there is no match
PageOfGroup(text) ==
    LET hits == {i \in 1..Len(text) : PageOfGroupStart(text, i) # 0}
    IN  IF hits = {} THEN << >>
        ELSE LET d == PageOfGroupStart(text, Leftmost(hits))
             IN  SubSeq(text, d, SkipDigits(text, d) - 1)

Max(a, b) == IF a >= b THEN a ELSE b

\* sep.join(parts)
RECURSIVE join(_, _)
join(sep, parts) ==
    IF parts = << >> THEN << >>
    ELSE IF Len(parts) = 1 THEN parts[1]
    ELSE parts[1] \o sep \o join(sep, Tail(parts))

----------------------------------------------------------------------------
(* The parsed page.  A soup is the document's signal-bearing nodes in      *)
(* document order; a node is a tag carrying a data-page attribute (val is  *)
(* the attribute), an anchor carrying an href (val is the href) or a text  *)
(* node (val is its text), and loc is the pagination container the node    *)
(* lies in, 0 when it lies in none.  ncont is the number of elements that  *)
(* match the pagination selector.                                          *)

DataPageSamples == {<<"3">>, <<"U+00B2">>, <<"x">>}
HrefSamples == {<<"?", "p", "=", "8", "&", "p", "=", "9">>, <<"?", "p", "=", "4">>}
TextSamples == {<<" ", "p", "a", "g", "e", " ", "1", " ", "o", "f", " ", "7">>}

NodesIn(locs) ==
    [loc : locs, kind : {"data-page"}, val : DataPageSamples]
    \cup [loc : locs, kind : {"a"}, val : HrefSamples]
    \cup [loc : locs, kind : {"text"}, val : TextSamples]

SeqsUpTo(S, n) == UNION {[1..k -> S] : k \in 0..n}

Soups ==
    UNION {[ncont : {c}, nodes : SeqsUpTo(NodesIn(0..c), MaxNodes)] :
              c \in 0..MaxContainers}

\* the nodes below a tag: tag.select(...) and tag.get_text() look at the
\* tag's descendants
Descendants(soup, c) == SelectSeq(soup.nodes, LAMBDA n : n.loc = c)

\* soup.select(".forum_pagination, .search_pagination, .forum_paging,
\* .searchPaging"): one tag per matching element
pagination_containers(soup) ==
    [c \in 1..soup.ncont |-> Descendants(soup, c)]

\* container.select("[data-page]"), each element's data-page attribute
SelectDataPage(container) ==
    LET els == SelectSeq(container, LAMBDA n : n.kind = "data-page")
    IN  [i \in 1..Len(els) |-> els[i].val]

\* container.select('a[href*="&p="]'), each link's href
SelectPageLinks(container) ==
    LET els == SelectSeq(container,
                   LAMBDA n : n.kind = "a" /\ Contains(n.val, <<"&", "p", "=">>))
    IN  [i \in 1..Len(els) |-> els[i].val]

\* container.get_text(" ", strip=True): the stripped non-empty text nodes
\* joined by one blank
get_text(container) ==
    LET els == SelectSeq(container,
                   LAMBDA n : n.kind = "text" /\ strip(n.val) # << >>)
    IN  join(<<" ">>, [i \in 1..Len(els) |-> strip(els[i].val)])

\* lines 86-89: the loop over the data-page elements, from running maximum m
RECURSIVE ScanDataPage(_, _)
ScanDataPage(values, m) ==
    IF values = << >> THEN Return(m)
    ELSE LET page_value == Head(values)
         IN  IF page_value # << >> /\ str_isdigit(page_value)
             THEN IF int(page_value).exc # ""
                  THEN Raise(int(page_value).exc)
                  ELSE ScanDataPage(Tail(values),
                                    Max(m, int(page_value).value))
             ELSE ScanDataPage(Tail(values), m)

\* lines 91-95: the loop over the links, from running maximum m
RECURSIVE ScanLinks(_, _)
ScanLinks(hrefs, m) ==
    IF hrefs = << >> THEN Return(m)
    ELSE LET match == HrefPageGroup(Head(hrefs))
         IN  IF match # << >>
             THEN IF int(match).exc # ""
                  THEN Raise(int(match).exc)
                  ELSE ScanLinks(Tail(hrefs), Max(m, int(match).value))
             ELSE ScanLinks(Tail(hrefs), m)

\* lines 98-101: the "Page X of Y" text of one container
ScanText(container, m) ==
    LET match == PageOfGroup(get_text(container))
    IN  IF match # << >>
        THEN IF int(match).exc # ""
             THEN Raise(int(match).exc)
             ELSE Return(Max(m, int(match).value))
        ELSE Return(m)

\* lines 85-101: the body of the loop for one container
ScanContainer(container, m) ==
    LET a == ScanDataPage(SelectDataPage(container), m)
    IN  IF a.exc # "" THEN a
        ELSE LET b == ScanLinks(SelectPageLinks(container), a.value)
             IN  IF b.exc # "" THEN b
                 ELSE ScanText(container, b.value)

RECURSIVE ScanContainers(_, _)
ScanContainers(containers, m) ==
    IF containers = << >> THEN Return(m)
    ELSE LET r == ScanContainer(Head(containers), m)
         IN  IF r.exc # "" THEN r
             ELSE ScanContainers(Tail(containers), r.value)

SearchScope_WholePage(soup) == <<soup.nodes>>

\* lines 78-83: the search scope
SearchScope(soup) ==
    IF pagination_containers(soup) # << >>
    THEN pagination_containers(soup)
    ELSE <<soup.nodes>>

\* extract_max_page(soup): what the call returns or raises
extract_max_page(soup) == ScanContainers(SearchScope(soup), 1)

----------------------------------------------------------------------------
(* read_app_ids *)

\* text.splitlines(), over texts whose only line boundary is "\n"
RECURSIVE splitlines(_)
splitlines(text_) ==
    IF text_ = << >> THEN << >>
    ELSE LET brk == {i \in 1..Len(text_) : text_[i] = "\n"}
         IN  IF brk = {} THEN <<text_>>
             ELSE LET k == CHOOSE i \in brk : \A j \in brk : i <= j
                  IN  <<SubSeq(text_, 1, k - 1)>>
                          \o splitlines(SubSeq(text_, k + 1, Len(text_)))

\* lines 49-56: the loop over the lines, app_ids being the list built so far
RECURSIVE ReadLines(_, _)
ReadLines(lines, ids) ==
    IF lines = << >> THEN ids
    ELSE LET app_id == strip(Head(lines))
         IN  IF app_id = << >> \/ startswith(app_id, <<"#">>)
             THEN ReadLines(Tail(lines), ids)
             ELSE IF ~str_isdigit(app_id)
             THEN ReadLines(Tail(lines), ids)
             ELSE ReadLines(Tail(lines), Append(ids, app_id))

read_app_ids(text_) == ReadLines(splitlines(text_), << >>)

----------------------------------------------------------------------------
(* build_base_url, build_page_url *)

\* str(n) for n >= 0
RECURSIVE str(_)
str(n) ==
    LET d == <<"0", "1", "2", "3", "4", "5", "6", "7", "8", "9">>[(n % 10) + 1]
    IN  IF n < 10 THEN <<d>> ELSE str(n \div 10) \o <<d>>

\* BASE_URL_TEMPLATE, before and after the {app_id} field
BASE_URL_HEAD == <<"h", "t", "t", "p", "s", ":", "/", "/", "s", "t", "e", "a", "m", "c", "o", "m", "m", "u", "n", "i", "t", "y", ".", "c", "o", "m", "/", "a", "p", "p", "/">>
BASE_URL_TAIL ==
    <<"/", "d", "i", "s", "c", "u", "s", "s", "i", "o", "n", "s", "/", "s", "e", "a", "r", "c", "h", "/", "?", "g", "i", "d", "f", "o", "r", "u", "m", "=", "1", "6", "3", "8", "6", "6", "1", "5", "9", "5", "0", "5", "8", "2", "6", "5", "1", "8", "0", "&", "i", "n", "c", "l", "u", "d", "e", "_", "d", "e", "l", "e", "t", "e", "d", "=", "1", "&", "q", "=", "+">>

\* PAGE_QUERY_TEMPLATE, before the {page} field
PAGE_QUERY_HEAD == <<"&", "p", "=">>

build_base_url(app_id) == BASE_URL_HEAD \o app_id \o BASE_URL_TAIL

build_page_url_FirstPageBare(app_id, page_) ==
    IF page_ = 1 THEN build_base_url(app_id)
    ELSE build_base_url(app_id) \o PAGE_QUERY_HEAD \o str(page_)

build_page_url(app_id, page_) ==
    build_base_url(app_id) \o PAGE_QUERY_HEAD \o str(page_)

----------------------------------------------------------------------------
(* fetch_max_page.  A response is what session.get() and                   *)
(* raise_for_status() give for the identifier's first page: a transport    *)
(* error, a non-success status, or a page.                                 *)

EmptySoup == [ncont |-> 0, nodes |-> << >>]

ServedSoups ==
    {EmptySoup}
    \cup {[ncont |-> 0, nodes |-> <<n>>] :
             n \in [loc : {0}, kind : {"data-page"}, val : DataPageSamples]}

Responses ==
    [kind : {"network", "status"}, soup : {EmptySoup}]
    \cup [kind : {"ok"}, soup : ServedSoups]

\* line 121: return max(max_page, 1), unless extract_max_page raised
AtLeastOne(r) == IF r.exc # "" THEN r ELSE Return(Max(r.value, 1))

fetch_max_page(response) ==
    IF response.kind \in {"network", "status"}
    THEN Raise("UrlGenerationError")
    ELSE AtLeastOne(extract_max_page(response.soup))

\* how the request ended: in a transport error, a non-success status, a
\* failure while parsing the page, or well
Outcome(response, r) ==
    IF response.kind # "ok" THEN response.kind
    ELSE IF r.exc # "" THEN "parse" ELSE "ok"

----------------------------------------------------------------------------
VARIABLES
    pc,            \* where the program is
    soup,          \* extract_max_page's argument
    extracted,     \* what extract_max_page returned or raised
    u_app_id,      \* build_page_url's arguments, and what it returned
    u_page,
    u_url,
    file_exists,   \* args.ids.exists()
    text,          \* the content of the identifier file
    delay,         \* args.delay
    app_ids,       \* the identifiers read
    gpc,           \* where the generator generate_urls stands
    idx,           \* the position in app_ids of the loop's app_id
    max_page,      \* generate_urls's max_page
    page,          \* the next page of the inner loop
    yielded,       \* the record the generator is suspended on, << >> if none
    output_exists, \* args.output exists
    csv_rows,      \* the rows of args.output
    fetches,       \* the page-1 requests issued so far, with their outcomes
    sleeps,        \* the calls of time.sleep so far
    rc             \* what main returned or raised

extractVars == <<soup, extracted>>
urlVars == <<u_app_id, u_page, u_url>>
inputVars == <<file_exists, text, delay>>
genVars == <<gpc, idx, max_page, page, yielded>>
runVars == <<app_ids, output_exists, csv_rows, fetches, sleeps, rc>>
vars == <<pc, extractVars, urlVars, inputVars, genVars, runVars>>

Pending == [exc |-> "pending", value |-> 0]

\* the parts of the state a specification does not use
ExtractIdle == soup = EmptySoup /\ extracted = Pending
UrlIdle == u_app_id = << >> /\ u_page = 0 /\ u_url = << >>
InputIdle == file_exists = FALSE /\ text = << >> /\ delay = 0
GenIdle ==
    /\ gpc = "unborn"
    /\ idx = 0
    /\ max_page = 0
    /\ page = 0
    /\ yielded = << >>
RunIdle ==
    /\ app_ids = << >>
    /\ output_exists = FALSE
    /\ csv_rows = << >>
    /\ fetches = << >>
    /\ sleeps = 0
    /\ rc = Pending

----------------------------------------------------------------------------
(* SpecExtract: extract_max_page applied to every page of the bounds *)

InitExtract ==
    /\ pc = "call"
    /\ soup \in Soups
    /\ extracted = Pending
    /\ UrlIdle /\ InputIdle /\ GenIdle /\ RunIdle

ExtractMaxPage ==
    /\ pc = "call"
    /\ extracted' = extract_max_page(soup)
    /\ pc' = "returned"
    /\ UNCHANGED <<soup, urlVars, inputVars, genVars, runVars>>

NextExtract == ExtractMaxPage

SpecExtract == InitExtract /\ [][NextExtract]_vars

----------------------------------------------------------------------------
(* SpecRead: read_app_ids applied to every file of the bounds *)

LineSamples ==
    {<<"1", "2", "3">>, <<>>, <<"#", " ", "c">>, <<"a", "b", "c">>, <<" ", "4", "5", "6", " ">>, <<"U+00B2">>, <<"4", "U+0663">>,
     <<"1", "2", "a">>}

\* the example of the specification's testable properties
ExampleText == <<"1", "2", "3", "\n", "\n", "#", " ", "c", "o", "m", "m", "e", "n", "t", "\n", "a", "b", "c", "\n", "4", "5", "6", "\n", "1", "2", "3", "\n">>

Texts ==
    {join(<<"\n">>, ls) : ls \in SeqsUpTo(LineSamples, MaxLines)}
    \cup {ExampleText}

InitRead ==
    /\ pc = "call"
    /\ file_exists = TRUE
    /\ text \in Texts
    /\ delay = 0
    /\ ExtractIdle /\ UrlIdle /\ GenIdle /\ RunIdle

ReadAppIds ==
    /\ pc = "call"
    /\ app_ids' = read_app_ids(text)
    /\ pc' = "returned"
    /\ UNCHANGED <<extractVars, urlVars, inputVars, genVars, output_exists,
                   csv_rows, fetches, sleeps, rc>>

NextRead == ReadAppIds

SpecRead == InitRead /\ [][NextRead]_vars

----------------------------------------------------------------------------
(* SpecUrl: build_page_url applied to every identifier and page of the     *)
(* bounds                                                                  *)

IdDigits == {"0", "4", "7"}
Identifiers == SeqsUpTo(IdDigits, MaxIdLen) \ {<< >>}

InitUrl ==
    /\ pc = "call"
    /\ u_app_id \in Identifiers
    /\ u_page \in 1..MaxPageNo
    /\ u_url = << >>
    /\ ExtractIdle /\ InputIdle /\ GenIdle /\ RunIdle

BuildPageUrl ==
    /\ pc = "call"
    /\ u_url' = build_page_url(u_app_id, u_page)
    /\ pc' = "returned"
    /\ UNCHANGED <<u_app_id, u_page, extractVars, inputVars, genVars, runVars>>

NextUrl == BuildPageUrl

SpecUrl == InitUrl /\ [][NextUrl]_vars

----------------------------------------------------------------------------
(* Spec: one run of main.  generate_urls is a generator: its body runs     *)
(* only while the consumer, the loop of write_csv, waits in next(), and it *)
(* is suspended at a yield while the consumer writes the record.           *)

MainLineSamples == {<<"7">>, <<" ", "4", "2">>, <<"#">>}

MainTexts == {join(<<"\n">>, ls) : ls \in SeqsUpTo(MainLineSamples, MaxLines)}

Delays == {0, 1}

Header == <<<<"a", "p", "p", "_", "i", "d">>, <<"u", "r", "l">>>>

Init ==
    /\ pc = "main"
    /\ file_exists \in BOOLEAN
    /\ text \in MainTexts
    /\ delay \in Delays
    /\ ExtractIdle /\ UrlIdle /\ GenIdle /\ RunIdle

\* lines 207-209: the identifier file is absent
Main_FileMissing ==
    /\ pc = "main"
    /\ ~file_exists
    /\ rc' = Return(1)
    /\ pc' = "exit"
    /\ UNCHANGED <<extractVars, urlVars, inputVars, genVars, app_ids,
                   output_exists, csv_rows, fetches, sleeps>>

\* lines 211-214: read the identifiers, and leave when there is none
Main_ReadIds ==
    /\ pc = "main"
    /\ file_exists
    /\ app_ids' = read_app_ids(text)
    /\ IF app_ids' = << >>
       THEN rc' = Return(1) /\ pc' = "exit"
       ELSE rc' = rc /\ pc' = "session"
    /\ UNCHANGED <<extractVars, urlVars, inputVars, genVars, output_exists,
                   csv_rows, fetches, sleeps>>

\* lines 216-220 and 152-155: the session and the generator are created,
\* write_csv opens the output, writes the header and asks for the first row
Main_WriteCsv ==
    /\ pc = "session"
    /\ output_exists' = TRUE
    /\ csv_rows' = <<Header>>
    /\ gpc' = "for"
    /\ pc' = "write_csv"
    /\ UNCHANGED <<extractVars, urlVars, inputVars, idx, max_page, page,
                   yielded, app_ids, fetches, sleeps, rc>>

\* the generator's body runs: it was started and is not suspended at a yield
Resumed_Eager == TRUE

Resumed == yielded = << >>

\* lines 132-137: the next identifier and its page-1 request.  An exception
\* other than UrlGenerationError leaves generate_urls, write_csv (whose with
\* block closes the output) and main; the generator's frame is gone then,
\* and max_page is left at 0.
Gen_Fetch ==
    /\ pc = "write_csv" /\ gpc = "for" /\ Resumed
    /\ idx < Len(app_ids)
    /\ \E response \in Responses : \E r \in {fetch_max_page(response)} :
          /\ idx' = idx + 1
          /\ IF r.exc = ""
             THEN /\ max_page' = r.value
                  /\ gpc' = "base"
                  /\ UNCHANGED <<pc, rc>>
             ELSE IF r.exc = "UrlGenerationError"
             THEN /\ max_page' = 1
                  /\ gpc' = "base"
                  /\ UNCHANGED <<pc, rc>>
             ELSE /\ max_page' = 0
                  /\ gpc' = "raised"
                  /\ pc' = "exit"
                  /\ rc' = Raise(r.exc)
          /\ fetches' = Append(fetches,
                 [app_id |-> app_ids[idx + 1],
                  outcome |-> Outcome(response, r),
                  max_page |-> max_page'])
    /\ UNCHANGED <<extractVars, urlVars, inputVars, page, yielded, app_ids,
                   output_exists, csv_rows, sleeps>>

Gen_YieldBase_ViaPageUrl ==
    /\ pc = "write_csv" /\ gpc = "base" /\ Resumed
    /\ yielded' = <<app_ids[idx], build_page_url(app_ids[idx], 1)>>
    /\ page' = 2
    /\ gpc' = "pages"
    /\ UNCHANGED <<pc, extractVars, urlVars, inputVars, idx, max_page,
                   runVars>>

\* lines 139-140: yield the identifier's first page
Gen_YieldBase ==
    /\ pc = "write_csv" /\ gpc = "base" /\ Resumed
    /\ yielded' = <<app_ids[idx], build_base_url(app_ids[idx])>>
    /\ page' = 2
    /\ gpc' = "pages"
    /\ UNCHANGED <<pc, extractVars, urlVars, inputVars, idx, max_page,
                   runVars>>

\* lines 142-143: yield the next page of range(2, max_page + 1)
Gen_YieldPage ==
    /\ pc = "write_csv" /\ gpc = "pages" /\ Resumed
    /\ page <= max_page
    /\ yielded' = <<app_ids[idx], build_page_url(app_ids[idx], page)>>
    /\ page' = page + 1
    /\ UNCHANGED <<pc, extractVars, urlVars, inputVars, gpc, idx, max_page,
                   runVars>>

\* lines 145-146: the inner loop is over; sleep when delay is set
Gen_Delay ==
    /\ pc = "write_csv" /\ gpc = "pages" /\ Resumed
    /\ page > max_page
    /\ sleeps' = IF delay # 0 THEN sleeps + 1 ELSE sleeps
    /\ gpc' = "for"
    /\ UNCHANGED <<pc, extractVars, urlVars, inputVars, idx, max_page, page,
                   yielded, app_ids, output_exists, csv_rows, fetches, rc>>

\* line 132: app_ids is exhausted, the generator returns
Gen_Return ==
    /\ pc = "write_csv" /\ gpc = "for" /\ Resumed
    /\ idx = Len(app_ids)
    /\ gpc' = "returned"
    /\ UNCHANGED <<pc, extractVars, urlVars, inputVars, idx, max_page, page,
                   yielded, runVars>>

\* lines 155-156: write_csv writes the record it was given and asks for
\* the next one
WriteCsv_Row ==
    /\ pc = "write_csv"
    /\ yielded # << >>
    /\ csv_rows' = Append(csv_rows, yielded)
    /\ yielded' = << >>
    /\ UNCHANGED <<pc, extractVars, urlVars, inputVars, gpc, idx, max_page,
                   page, app_ids, output_exists, fetches, sleeps, rc>>

\* lines 155, 222-223: the rows are exhausted, write_csv and main return
Main_Return ==
    /\ pc = "write_csv" /\ gpc = "returned"
    /\ rc' = Return(0)
    /\ pc' = "exit"
    /\ UNCHANGED <<extractVars, urlVars, inputVars, genVars, app_ids,
                   output_exists, csv_rows, fetches, sleeps>>

Next ==
    \/ Main_FileMissing
    \/ Main_ReadIds
    \/ Main_WriteCsv
    \/ Gen_Fetch
    \/ Gen_YieldBase
    \/ Gen_YieldPage
    \/ Gen_Delay
    \/ Gen_Return
    \/ WriteCsv_Row
    \/ Main_Return

Spec == Init /\ [][Next]_vars

----------------------------------------------------------------------------
(* Claims about extract_max_page, under SpecExtract *)

Returned == pc = "returned"

\* the nodes of the search scope: the nodes inside the pagination
\* containers when there is one, every node of the page otherwise
InScope(soup_, n) == soup_.ncont = 0 \/ n.loc # 0

IsDecimalString(s) == Len(s) > 0 /\ \A i \in 1..Len(s) : IsDecimalChar(s[i])

\* the values the three signal types supply within the search scope
AttributeSignals(soup_) ==
    {DecimalValue(soup_.nodes[i].val) :
        i \in {j \in 1..Len(soup_.nodes) :
                  /\ InScope(soup_, soup_.nodes[j])
                  /\ soup_.nodes[j].kind = "data-page"
                  /\ IsDecimalString(soup_.nodes[j].val)}}

LinkSignals(soup_) ==
    {DecimalValue(HrefPageGroup(soup_.nodes[i].val)) :
        i \in {j \in 1..Len(soup_.nodes) :
                  /\ InScope(soup_, soup_.nodes[j])
                  /\ soup_.nodes[j].kind = "a"
                  /\ Contains(soup_.nodes[j].val, <<"&", "p", "=">>)
                  /\ HrefPageGroup(soup_.nodes[j].val) # << >>}}

TextSignals(soup_) ==
    LET scopes == IF soup_.ncont = 0 THEN {soup_.nodes}
                  ELSE {Descendants(soup_, c) : c \in 1..soup_.ncont}
    IN  {DecimalValue(PageOfGroup(get_text(t))) :
            t \in {u \in scopes : PageOfGroup(get_text(u)) # << >>}}

Signals(soup_) ==
    AttributeSignals(soup_) \cup LinkSignals(soup_) \cup TextSignals(soup_)

SetMax(S) == CHOOSE m \in S : \A x \in S : x <= m

\* C3: extract_max_page returns the maximum of 1 and every value the three
\* signal types supply within the search scope.
C3_MaxOfSignals ==
    Returned => extracted = Return(SetMax({1} \cup Signals(soup)))

\* Lemma: whenever extract_max_page returns, it returns that maximum.
MaxOfSignalsWhenReturning ==
    (Returned /\ extracted.exc = "")
        => extracted = Return(SetMax({1} \cup Signals(soup)))

\* no signal of any type anywhere in the page
NoSignal(soup_) ==
    \A i \in 1..Len(soup_.nodes) :
        LET n == soup_.nodes[i]
        IN  /\ n.kind = "data-page" => ~str_isdigit(n.val)
            /\ n.kind = "a" => ~Contains(n.val, <<"&", "p", "=">>)
            /\ n.kind = "text" => PageOfGroup(get_text(soup_.nodes)) = << >>

\* C4: extract_max_page never raises; it returns an integer >= 1, and
\* exactly 1 when no signal is present.
C4_NeverFails ==
    Returned =>
        /\ extracted.exc = ""
        /\ extracted.value >= 1
        /\ NoSignal(soup) => extracted.value = 1

\* the pages that differ from soup_ only outside every container: one
\* outside node removed, changed, or added
RemoveAt(s, i) == SubSeq(s, 1, i - 1) \o SubSeq(s, i + 1, Len(s))
InsertAt(s, i, e) == SubSeq(s, 1, i - 1) \o <<e>> \o SubSeq(s, i, Len(s))

OutsideEdits(soup_) ==
    LET outs == {i \in 1..Len(soup_.nodes) : soup_.nodes[i].loc = 0}
    IN  {[soup_ EXCEPT !.nodes = RemoveAt(soup_.nodes, i)] : i \in outs}
        \cup {[soup_ EXCEPT !.nodes[i] = n] :
                 i \in outs, n \in NodesIn({0})}
        \cup {[soup_ EXCEPT !.nodes = InsertAt(soup_.nodes, i, n)] :
                 i \in 1..(Len(soup_.nodes) + 1), n \in NodesIn({0})}

\* C9: when a pagination container matches, signals outside every container
\* do not influence the result: adding, removing or changing one leaves it
\* unchanged; when none matches, the whole page is scanned, so every
\* data-page and link value of the page bounds the result from below.
C9_ScopeRestriction ==
    Returned =>
        /\ soup.ncont > 0 =>
              \A q \in OutsideEdits(soup) : extract_max_page(q) = extracted
        /\ (soup.ncont = 0 /\ extracted.exc = "") =>
              \A v \in AttributeSignals(soup) \cup LinkSignals(soup) :
                  extracted.value >= v

C9_Witness ==
    /\ Returned
    /\ soup.ncont > 0
    /\ \E i \in 1..Len(soup.nodes) :
          /\ soup.nodes[i].loc = 0
          /\ soup.nodes[i].kind = "a"
          /\ soup.nodes[i].val = <<"?", "p", "=", "8", "&", "p", "=", "9">>
    /\ extracted = Return(7)


----------------------------------------------------------------------------
(* Claims about read_app_ids, under SpecRead *)

IsAsciiDecimal(s) == Len(s) > 0 /\ \A i \in 1..Len(s) : s[i] \in AsciiDigits

\* the stripped lines that are non-empty, are no comment and consist of the
\* decimal digits 0-9, in input order
QualifyingLines(text_) ==
    LET lines == splitlines(text_)
        stripped == [i \in 1..Len(lines) |-> strip(lines[i])]
    IN  SelectSeq(stripped,
            LAMBDA l : l # << >> /\ ~startswith(l, <<"#">>) /\ IsAsciiDecimal(l))

\* C5: read_app_ids returns exactly the stripped lines that are non-empty,
\* do not start with '#' and consist of decimal digits 0-9, in input order
\* with duplicates kept; every identifier returned is a non-empty string of
\* the digits 0-9.
C5_ExactlyDecimalLines ==
    pc = "returned" =>
        /\ app_ids = QualifyingLines(text)
        /\ \A i \in 1..Len(app_ids) : IsAsciiDecimal(app_ids[i])

----------------------------------------------------------------------------
(* Claims about build_page_url, under SpecUrl *)

\* C8 as stated: page 1 gives the base URL itself, and a page >= 2 gives the
\* base URL followed by '&p=<page>'.
C8_PageOneIsBase ==
    pc = "returned" =>
        /\ u_page = 1 => u_url = build_base_url(u_app_id)
        /\ u_page >= 2 =>
              u_url = build_base_url(u_app_id) \o <<"&", "p", "=">> \o str(u_page)

\* C8 as amended: for every page >= 1, page 1 included, build_page_url gives
\* the base URL followed by '&p=' and the decimal numeral of the page; for
\* page 1 that is the base URL followed by '&p=1', not the base URL.
C8_AlwaysAppendsSelector ==
    pc = "returned" =>
        LET base == build_base_url(u_app_id)
            rest == SubSeq(u_url, Len(base) + 1, Len(u_url))
        IN  /\ startswith(u_url, base)
            /\ startswith(rest, <<"&", "p", "=">>)
            /\ int(SubSeq(rest, 4, Len(rest))) = Return(u_page)
            /\ u_url # base

C8_Witness ==
    /\ pc = "returned"
    /\ u_page = 1
    /\ u_app_id = <<"4", "7">>
    /\ u_url = build_base_url(<<"4", "7">>) \o <<"&", "p", "=", "1">>

----------------------------------------------------------------------------
(* Claims about generate_urls and main, under Spec *)

\* the records a run owes to the first i identifiers, N[j] being the
\* max-page of identifier j
RECURSIVE Total(_, _)
Total(N, i) == IF i = 0 THEN 0 ELSE Total(N, i - 1) + N[i]

\* the page a URL selects: the number after '&p=', page 1 when there is none
PageOf(url) ==
    IF Contains(url, <<"&", "p", "=">>)
    THEN DecimalValue(HrefPageGroup(url)) ELSE 1

\* rows holds, after the header, N[i] records for each identifier i in
\* input order, those of identifier i being its base URL and then the pages
\* 2..N[i] ascending
GroupedRows(rows, ids, N) ==
    /\ Len(rows) = 1 + Total(N, Len(ids))
    /\ rows[1] = Header
    /\ \A i \in 1..Len(ids) : \A k \in 1..N[i] :
          LET row == rows[1 + Total(N, i - 1) + k]
              base == build_base_url(ids[i])
          IN  /\ row[1] = ids[i]
              /\ PageOf(row[2]) = k
              /\ IF k = 1
                 THEN row[2] = base /\ ~Contains(row[2], <<"&", "p", "=">>)
                 ELSE row[2] = base \o <<"&", "p", "=">> \o str(k)

Finished == pc = "exit" /\ rc = Return(0)

AllSucceeded == \A i \in 1..Len(fetches) : fetches[i].outcome = "ok"

\* C1: when every fetch succeeds, the records are the concatenation in
\* input order, duplicates kept, of one group per identifier: base_url(id)
\* and then page_url(id, p) for p = 2..N ascending, N records in all with
\* pages 1..N, and no '&p=' in the group's first record.
C1_GroupsInInputOrder ==
    (Finished /\ AllSucceeded) =>
        /\ Len(fetches) = Len(app_ids)
        /\ GroupedRows(csv_rows, app_ids,
               [i \in 1..Len(fetches) |-> fetches[i].max_page])

C1_Witness ==
    /\ Finished /\ AllSucceeded
    /\ Len(app_ids) = 2
    /\ app_ids[1] = app_ids[2]
    /\ fetches[1].max_page = 3
    /\ fetches[2].max_page = 1
    /\ Len(csv_rows) = 5

Failed(i) == fetches[i].outcome \in {"network", "status", "parse"}

\* C2: a page-1 fetch that fails in any of the three ways (transport error,
\* non-success status, failure while parsing the page) costs the identifier
\* nothing but its further pages: it gets exactly one record, its base URL,
\* and every later identifier is processed.
C2_FailureYieldsOneRecord ==
    (pc = "exit" /\ fetches # << >>) =>
        /\ Len(fetches) = Len(app_ids)
        /\ GroupedRows(csv_rows, app_ids,
               [i \in 1..Len(fetches) |->
                   IF Failed(i) THEN 1 ELSE fetches[i].max_page])

\* C6: main exits with 1 exactly when the identifier file is absent or
\* holds no valid identifier, then without any fetch and without an output
\* file; every other run exits with 0 after writing the output, whatever
\* the fetches did.
C6_ExitCodes ==
    pc = "exit" =>
        /\ rc = Return(1) <=> (~file_exists \/ read_app_ids(text) = << >>)
        /\ rc = Return(1) => (fetches = << >> /\ ~output_exists)
        /\ rc # Return(1) =>
              /\ rc = Return(0)
              /\ output_exists
              /\ Len(fetches) = Len(app_ids)

\* C7: with delay > 0 a run over k identifiers sleeps k-1 times, once
\* between each identifier and its successor and not after the last.
C7_SleepsBetweenIdentifiers ==
    (Finished /\ delay > 0) => sleeps = Len(app_ids) - 1

\* the records of the fetched identifiers but the last / of all of them
Owed(n) ==
    Total([i \in 1..Len(fetches) |->
              IF fetches[i].outcome = "parse" THEN 0
              ELSE fetches[i].max_page], n)

\* the records the generator has yielded so far
Emitted == (Len(csv_rows) - 1) + (IF yielded = << >> THEN 0 ELSE 1)

====
